---------------------------- MODULE Spec2Model ----------------------------
(***************************************************************************)
(* scripts/gas-report.py: main() deploys TestRecordsMerkleTree, seeds its  *)
(* root and leaf count, submits one update transaction and prints the gas  *)
(* summary and the call trace of that transaction.                         *)
(*                                                                         *)
(* The script is a straight line of blocking calls into brownie.  Each     *)
(* call is modelled as two steps, its submission and its return, with the  *)
(* environment choosing the outcome of the return.  An exception raised by *)
(* a call is not caught anywhere in main, so it ends the run.              *)
(*                                                                         *)
(* Field elements do not fit TLC's integers; they are kept as the decimal  *)
(* strings of the literals of the script, "0" for the zero element.        *)
(***************************************************************************)
EXTENDS Integers, Sequences, FiniteSets, TLC

VARIABLES
    pc,               \* the statement main is at
    mode,             \* how brownie runs the script: "script" or "console"
    accounts,         \* brownie's pre-funded test identities
    rpcAlive,         \* whether the local RPC client still answers
    chain,            \* address -> contract storage on the test chain
    receipts,         \* the transactions mined so far, in order
    inflight,         \* the external calls submitted and not yet returned
    calls,            \* every call main has issued, in order
    tree_depth,       \* local of main, line 7
    zeros,            \* the number of zero entries of line 17
    mock_contract,    \* local of main, line 8 (0: not bound yet)
    flatten_frontier, \* local of main, line 17
    elems,            \* local of main, line 18
    tx,               \* local of main, line 24
    status_read,      \* the value the expression of line 28 evaluated to
    output,           \* what has been printed
    error             \* the exception that ended the run

vars == << pc, mode, accounts, rpcAlive, chain, receipts, inflight, calls,
           tree_depth, zeros, mock_contract, flatten_frontier, elems, tx,
           status_read, output, error >>

-----------------------------------------------------------------------------
(* Bounds of the model. *)

MaxAccounts == 2

NumAddresses == 2

PadSlack == 1

-----------------------------------------------------------------------------
(* The literals of the script. *)

TreeDepth == 20

initial_root_value ==
    "16338819200219295738128869281163133642735762710891814031809540606861827401155"

initial_num_of_leaves == 1

leaf_value ==
    "17101599813294219906421080963940202236242422543188383858545041456174912634953"

NumZeros == 60

Elems == << 1, 2, 3, 4, 5 >>

\* [leaf_value] + [0] * n
Frontier(n) == << leaf_value >> \o [i \in 1..n |-> "0"]

-----------------------------------------------------------------------------
(* The environment: brownie, the test chain and the contract. *)

Addresses == 1..NumAddresses

Modes == {"script", "console"}

\* brownie's transaction status: 1 confirmed, 0 reverted
Confirmed == 1

Reverted == 0

NoTx == [fn |-> "none", status |-> -1]

\* A Merkle root is opaque: the root the tree was seeded with and the leaves
\* appended to it since.
Root(base, appended) == [base |-> base, appended |-> appended]

NoContract == [deployed |-> FALSE, height |-> 0, root |-> Root("0", << >>), numLeaves |-> 0]

\* The storage of a contract right after its constructor has run.
Deployed(height) ==
    [deployed |-> TRUE, height |-> height, root |-> Root("0", << >>), numLeaves |-> 0]

\* The frontier length the contract of a given height works with: the leaf
\* and, per level of the ternary tree, two siblings and a position.
Capacity(height) == 3 * height + 1

\* testSetRootAndNumLeaves: overwrites root and leaf count.
SetRootAndNumLeaves(c, root, n) ==
    [c EXCEPT !.root = Root(root, << >>), !.numLeaves = n]

\* testUpdateRecordsMerkleTree on success: the elements are appended.
UpdateRecordsMerkleTree(c, frontier, es) ==
    [c EXCEPT !.root = Root(c.root.base, c.root.appended \o es),
              !.numLeaves = c.numLeaves + Len(es)]

\* What the contract may do with an update: it rejects a frontier of the
\* wrong length, and may accept or reject one of the right length.
UpdateVerdicts(c, frontier) ==
    IF c.deployed /\ Len(frontier) = Capacity(c.height)
    THEN {"ok", "revert"}
    ELSE {"revert"}

\* What the contract may do with the seeding call.
SeedVerdicts(c) == IF c.deployed THEN {"ok", "revert"} ELSE {"revert"}

\* How a mined transaction comes back to the script.  Under `brownie run` a
\* reverted transaction raises at the call; in the console its receipt is
\* returned with status 0.
Delivery(verdict) ==
    IF verdict = "ok" THEN "return"
    ELSE IF mode = "console" THEN "return" ELSE "raise"

Call(fn, from, to, depth, root, leaves, frontier, es) ==
    [fn |-> fn, from |-> from, to |-> to, depth |-> depth, root |-> root,
     leaves |-> leaves, frontier |-> frontier, elems |-> es]

\* The call main issued under the name fn.
CallOf(fn) == calls[CHOOSE i \in 1..Len(calls) : calls[i].fn = fn]

Terminated == pc \in {"done", "aborted"}

-----------------------------------------------------------------------------
(* main *)

\* An uncaught exception: the run ends where it was raised.
Abort(exc) ==
    /\ pc' = "aborted"
    /\ error' = exc

\* line 7
AssignDepth ==
    /\ pc = "start"
    /\ tree_depth' = TreeDepth
    /\ pc' = "deploy"
    /\ UNCHANGED << mode, accounts, rpcAlive, chain, receipts, inflight, calls,
                    zeros, mock_contract, flatten_frontier, elems, tx,
                    status_read, output, error >>

\* line 8, up to the submission of the deployment
DeploySubmit ==
    /\ pc = "deploy"
    /\ IF Len(accounts) = 0
       THEN /\ Abort("IndexError")
            /\ UNCHANGED << inflight, calls >>
       ELSE /\ inflight' = inflight \cup {"deploy"}
            /\ calls' = Append(calls,
                   Call("deploy", accounts[1], 0, tree_depth, "0", 0, << >>, << >>))
            /\ pc' = "deploy_wait"
            /\ UNCHANGED error
    /\ UNCHANGED << mode, accounts, rpcAlive, chain, receipts, tree_depth, zeros,
                    mock_contract, flatten_frontier, elems, tx, status_read, output >>

\* line 8, the deployment returns a handle or raises
DeployReturn ==
    /\ pc = "deploy_wait"
    /\ inflight' = inflight \ {"deploy"}
    /\ \/ /\ rpcAlive
          /\ \E a \in Addresses :
                /\ ~chain[a].deployed
                /\ chain' = [chain EXCEPT ![a] = Deployed(CallOf("deploy").depth)]
                /\ mock_contract' = a
          /\ receipts' = Append(receipts, [fn |-> "deploy", status |-> Confirmed])
          /\ pc' = "args"
          /\ UNCHANGED error
       \/ /\ Abort(IF rpcAlive THEN "DeployError" ELSE "RPCRequestError")
          /\ UNCHANGED << chain, mock_contract, receipts >>
    /\ UNCHANGED << mode, accounts, rpcAlive, calls, tree_depth, zeros,
                    flatten_frontier, elems, tx, status_read, output >>

\* BuildArgs with the padding one entry short.
BuildArgsShort ==
    /\ pc = "args"
    /\ flatten_frontier' = Frontier(zeros - 1)
    /\ elems' = Elems
    /\ pc' = "seed"
    /\ UNCHANGED << mode, accounts, rpcAlive, chain, receipts, inflight, calls,
                    tree_depth, zeros, mock_contract, tx, status_read, output, error >>

\* lines 10-18
BuildArgs ==
    /\ pc = "args"
    /\ flatten_frontier' = Frontier(zeros)
    /\ elems' = Elems
    /\ pc' = "seed"
    /\ UNCHANGED << mode, accounts, rpcAlive, chain, receipts, inflight, calls,
                    tree_depth, zeros, mock_contract, tx, status_read, output, error >>

\* SeedSubmit that does not wait for the transaction (required_confs 0).
SeedSubmitNoWait ==
    /\ pc = "seed"
    /\ inflight' = inflight \cup {"seed"}
    /\ calls' = Append(calls,
           Call("testSetRootAndNumLeaves", accounts[1], mock_contract, 0,
                initial_root_value, initial_num_of_leaves, << >>, << >>))
    /\ pc' = "update"
    /\ UNCHANGED << mode, accounts, rpcAlive, chain, receipts, tree_depth, zeros,
                    mock_contract, flatten_frontier, elems, tx, status_read,
                    output, error >>

\* SeedSubmit that seeds a leaf count of 0.
SeedSubmitWrongLeaves ==
    /\ pc = "seed"
    /\ inflight' = inflight \cup {"seed"}
    /\ calls' = Append(calls,
           Call("testSetRootAndNumLeaves", accounts[1], mock_contract, 0,
                initial_root_value, 0, << >>, << >>))
    /\ pc' = "seed_wait"
    /\ UNCHANGED << mode, accounts, rpcAlive, chain, receipts, tree_depth, zeros,
                    mock_contract, flatten_frontier, elems, tx, status_read,
                    output, error >>

\* lines 20-22, up to the submission of the seeding transaction
SeedSubmit ==
    /\ pc = "seed"
    /\ inflight' = inflight \cup {"seed"}
    /\ calls' = Append(calls,
           Call("testSetRootAndNumLeaves", accounts[1], mock_contract, 0,
                initial_root_value, initial_num_of_leaves, << >>, << >>))
    /\ pc' = "seed_wait"
    /\ UNCHANGED << mode, accounts, rpcAlive, chain, receipts, tree_depth, zeros,
                    mock_contract, flatten_frontier, elems, tx, status_read,
                    output, error >>

\* SeedReturn inside a try/except that goes on to the update.
SeedReturnSwallow ==
    /\ pc = "seed_wait"
    /\ inflight' = inflight \ {"seed"}
    /\ LET c == CallOf("testSetRootAndNumLeaves") IN
       \/ /\ rpcAlive
          /\ \E v \in SeedVerdicts(chain[c.to]) :
                /\ chain' = IF v = "ok"
                            THEN [chain EXCEPT
                                    ![c.to] = SetRootAndNumLeaves(@, c.root, c.leaves)]
                            ELSE chain
                /\ receipts' = Append(receipts,
                       [fn |-> c.fn, status |-> IF v = "ok" THEN Confirmed ELSE Reverted])
       \/ /\ ~rpcAlive
          /\ UNCHANGED << chain, receipts >>
    /\ pc' = "update"
    /\ UNCHANGED << mode, accounts, rpcAlive, calls, tree_depth, zeros, error,
                    mock_contract, flatten_frontier, elems, tx, status_read, output >>

\* lines 20-22, the seeding transaction returns or raises; its receipt is
\* dropped
SeedReturn ==
    /\ pc = "seed_wait"
    /\ inflight' = inflight \ {"seed"}
    /\ LET c == CallOf("testSetRootAndNumLeaves") IN
       \/ /\ rpcAlive
          /\ \E v \in SeedVerdicts(chain[c.to]) :
                /\ chain' = IF v = "ok"
                            THEN [chain EXCEPT
                                    ![c.to] = SetRootAndNumLeaves(@, c.root, c.leaves)]
                            ELSE chain
                /\ receipts' = Append(receipts,
                       [fn |-> c.fn, status |-> IF v = "ok" THEN Confirmed ELSE Reverted])
                /\ IF Delivery(v) = "return"
                   THEN pc' = "update" /\ UNCHANGED error
                   ELSE Abort("VirtualMachineError")
       \/ /\ ~rpcAlive
          /\ Abort("RPCRequestError")
          /\ UNCHANGED << chain, receipts >>
    /\ UNCHANGED << mode, accounts, rpcAlive, calls, tree_depth, zeros,
                    mock_contract, flatten_frontier, elems, tx, status_read, output >>

\* UpdateSubmit paid for by the last identity instead of the first.
UpdateSubmitLastAccount ==
    /\ pc = "update"
    /\ inflight' = inflight \cup {"update"}
    /\ calls' = Append(calls,
           Call("testUpdateRecordsMerkleTree", accounts[Len(accounts)], mock_contract, 0,
                "0", 0, flatten_frontier, elems))
    /\ pc' = "update_wait"
    /\ UNCHANGED << mode, accounts, rpcAlive, chain, receipts, tree_depth, zeros,
                    mock_contract, flatten_frontier, elems, tx, status_read,
                    output, error >>

\* UpdateSubmit that first fits the frontier to the capacity of the tree.
UpdateSubmitFitted ==
    /\ pc = "update"
    /\ inflight' = inflight \cup {"update"}
    /\ calls' = Append(calls,
           Call("testUpdateRecordsMerkleTree", accounts[1], mock_contract, 0,
                "0", 0, Frontier(Capacity(tree_depth) - 1), elems))
    /\ pc' = "update_wait"
    /\ UNCHANGED << mode, accounts, rpcAlive, chain, receipts, tree_depth, zeros,
                    mock_contract, flatten_frontier, elems, tx, status_read,
                    output, error >>

\* lines 24-26, up to the submission of the update transaction
UpdateSubmit ==
    /\ pc = "update"
    /\ inflight' = inflight \cup {"update"}
    /\ calls' = Append(calls,
           Call("testUpdateRecordsMerkleTree", accounts[1], mock_contract, 0,
                "0", 0, flatten_frontier, elems))
    /\ pc' = "update_wait"
    /\ UNCHANGED << mode, accounts, rpcAlive, chain, receipts, tree_depth, zeros,
                    mock_contract, flatten_frontier, elems, tx, status_read,
                    output, error >>

\* lines 24-26, the update transaction returns its receipt, bound to tx, or
\* raises
UpdateReturn ==
    /\ pc = "update_wait"
    /\ inflight' = inflight \ {"update"}
    /\ LET c == CallOf("testUpdateRecordsMerkleTree") IN
       \/ /\ rpcAlive
          /\ \E v \in UpdateVerdicts(chain[c.to], c.frontier) :
                LET r == [fn |-> c.fn, status |-> IF v = "ok" THEN Confirmed ELSE Reverted]
                IN  /\ chain' = IF v = "ok"
                                THEN [chain EXCEPT
                                        ![c.to] = UpdateRecordsMerkleTree(@, c.frontier, c.elems)]
                                ELSE chain
                    /\ receipts' = Append(receipts, r)
                    /\ IF Delivery(v) = "return"
                       THEN tx' = r /\ pc' = "info" /\ UNCHANGED error
                       ELSE Abort("VirtualMachineError") /\ UNCHANGED tx
       \/ /\ ~rpcAlive
          /\ Abort("RPCRequestError")
          /\ UNCHANGED << chain, receipts, tx >>
    /\ UNCHANGED << mode, accounts, rpcAlive, calls, tree_depth, zeros,
                    mock_contract, flatten_frontier, elems, status_read, output >>

\* Info that prints nothing.
InfoSilent ==
    /\ pc = "info"
    /\ calls' = Append(calls, Call("info", -1, 0, 0, "0", 0, << >>, << >>))
    /\ pc' = "status"
    /\ UNCHANGED << mode, accounts, rpcAlive, chain, receipts, inflight,
                    tree_depth, zeros, mock_contract, flatten_frontier, elems,
                    tx, status_read, output, error >>

\* line 27: the summary of tx is printed; only a dead RPC client can make
\* it raise
Info ==
    /\ pc = "info"
    /\ calls' = Append(calls, Call("info", -1, 0, 0, "0", 0, << >>, << >>))
    /\ \/ /\ output' = Append(output, "info")
          /\ pc' = "status"
          /\ UNCHANGED error
       \/ /\ ~rpcAlive
          /\ Abort("RPCRequestError")
          /\ UNCHANGED output
    /\ UNCHANGED << mode, accounts, rpcAlive, chain, receipts, inflight,
                    tree_depth, zeros, mock_contract, flatten_frontier, elems,
                    tx, status_read >>

\* ReadStatus that ends the run early on a reverted transaction.
ReadStatusBranch ==
    /\ pc = "status"
    /\ status_read' = tx.status
    /\ pc' = IF tx.status = Confirmed THEN "call_trace" ELSE "done"
    /\ UNCHANGED << mode, accounts, rpcAlive, chain, receipts, inflight, calls,
                    tree_depth, zeros, mock_contract, flatten_frontier, elems,
                    tx, output, error >>

\* line 28: the status is evaluated and dropped
ReadStatus ==
    /\ pc = "status"
    /\ status_read' = tx.status
    /\ pc' = "call_trace"
    /\ UNCHANGED << mode, accounts, rpcAlive, chain, receipts, inflight, calls,
                    tree_depth, zeros, mock_contract, flatten_frontier, elems,
                    tx, output, error >>

\* line 33, up to the request of the trace
TraceSubmit ==
    /\ pc = "call_trace"
    /\ inflight' = inflight \cup {"call_trace"}
    /\ calls' = Append(calls, Call("call_trace", -1, 0, 0, "0", 0, << >>, << >>))
    /\ pc' = "trace_wait"
    /\ UNCHANGED << mode, accounts, rpcAlive, chain, receipts, tree_depth, zeros,
                    mock_contract, flatten_frontier, elems, tx, status_read,
                    output, error >>

\* TraceReturn that asks again when the request fails.
TraceReturnRetry ==
    /\ pc = "trace_wait"
    /\ inflight' = inflight \ {"call_trace"}
    /\ \/ /\ rpcAlive
          /\ output' = Append(output, "call_trace")
          /\ pc' = "done"
          /\ UNCHANGED << rpcAlive, error >>
       \/ /\ rpcAlive' = FALSE
          /\ pc' = "call_trace"
          /\ UNCHANGED << output, error >>
    /\ UNCHANGED << mode, accounts, chain, receipts, calls, tree_depth, zeros,
                    mock_contract, flatten_frontier, elems, tx, status_read >>

\* TraceReturn that keeps waiting for a trace that never comes.
TraceReturnHang ==
    /\ pc = "trace_wait"
    /\ \/ /\ rpcAlive
          /\ inflight' = inflight \ {"call_trace"}
          /\ output' = Append(output, "call_trace")
          /\ pc' = "done"
          /\ UNCHANGED << rpcAlive, error >>
       \/ /\ rpcAlive' = FALSE
          /\ UNCHANGED << pc, inflight, output, error >>
    /\ UNCHANGED << mode, accounts, chain, receipts, calls, tree_depth, zeros,
                    mock_contract, flatten_frontier, elems, tx, status_read >>

\* line 33, the trace is printed, or debug_traceTransaction fails (lines
\* 29-30: the RPC client is then taken to have crashed)
TraceReturn ==
    /\ pc = "trace_wait"
    /\ inflight' = inflight \ {"call_trace"}
    /\ \/ /\ rpcAlive
          /\ output' = Append(output, "call_trace")
          /\ pc' = "done"
          /\ UNCHANGED << rpcAlive, error >>
       \/ /\ rpcAlive' = FALSE
          /\ Abort("RPCRequestError")
          /\ UNCHANGED output
    /\ UNCHANGED << mode, accounts, chain, receipts, calls, tree_depth, zeros,
                    mock_contract, flatten_frontier, elems, tx, status_read >>

\* The local RPC client crashes while main runs.
NodeCrash ==
    /\ ~Terminated
    /\ rpcAlive
    /\ rpcAlive' = FALSE
    /\ UNCHANGED << pc, mode, accounts, chain, receipts, inflight, calls,
                    tree_depth, zeros, mock_contract, flatten_frontier, elems,
                    tx, status_read, output, error >>

\* A statement of main.
Step ==
    \/ AssignDepth
    \/ DeploySubmit
    \/ DeployReturn
    \/ BuildArgs
    \/ SeedSubmit
    \/ SeedReturn
    \/ UpdateSubmit
    \/ UpdateReturn
    \/ Info
    \/ ReadStatus
    \/ TraceSubmit
    \/ TraceReturn

\* The environment main is run in: identities available, RPC client up,
\* nothing deployed.
Env(m, zs) ==
    /\ pc = "start"
    /\ mode = m
    /\ accounts \in { [i \in 1..n |-> i - 1] : n \in 0..MaxAccounts }
    /\ rpcAlive = TRUE
    /\ chain = [a \in Addresses |-> NoContract]
    /\ receipts = << >>
    /\ inflight = {}
    /\ calls = << >>
    /\ tree_depth = 0
    /\ zeros = zs
    /\ mock_contract = 0
    /\ flatten_frontier = << >>
    /\ elems = << >>
    /\ tx = NoTx
    /\ status_read = -1
    /\ output = << >>
    /\ error = "none"

\* `brownie run gas-report` (line 5)
Init == Env("script", NumZeros)

Next == Step \/ NodeCrash

Spec == Init /\ [][Next]_vars

\* Every call returns or fails, and main goes on to its next statement.
FairSpec == Spec /\ WF_vars(Step)

\* main run either way: `brownie run`, or run() from the brownie console
InitModes == \E m \in Modes : Env(m, NumZeros)

SpecModes == InitModes /\ [][Next]_vars

\* main with the padding of line 17 varied around the literal, in either mode
InitParam ==
    \E m \in Modes : \E zs \in (NumZeros - PadSlack)..(NumZeros + PadSlack) : Env(m, zs)

SpecParam == InitParam /\ [][Next]_vars

-----------------------------------------------------------------------------
(* Properties of main. *)

Deploy == "deploy"

Seed == "testSetRootAndNumLeaves"

Update == "testUpdateRecordsMerkleTree"

\* The names of the calls issued so far, in order.
Fns == [i \in 1..Len(calls) |-> calls[i].fn]

Issued(fn) == \E i \in 1..Len(calls) : calls[i].fn = fn

IndexOf(fn) == CHOOSE i \in 1..Len(calls) : calls[i].fn = fn

Count(fn) == Cardinality({i \in 1..Len(calls) : calls[i].fn = fn})

\* The receipts of the mined transactions named fn.
ReceiptsOf(fn) == {i \in 1..Len(receipts) : receipts[i].fn = fn}

IsPrefix(s, t) == Len(s) <= Len(t) /\ \A i \in 1..Len(s) : s[i] = t[i]

\* C1: the external calls are issued in the order deploy, seed, update, each
\* one only after the one before it has returned (the seed only once the
\* deployment has handed back a handle), and at no time are two of them in
\* flight.
C1_StrictOrder ==
    /\ Cardinality(inflight) <= 1
    /\ IsPrefix(Fns, << Deploy, Seed, Update, "info", "call_trace" >>)
    /\ Issued(Seed) =>
          /\ Issued(Deploy)
          /\ "deploy" \notin inflight
          /\ mock_contract # 0
          /\ ReceiptsOf(Deploy) # {}
    /\ Issued(Update) =>
          /\ Issued(Seed)
          /\ IndexOf(Seed) < IndexOf(Update)
          /\ "seed" \notin inflight
          /\ ReceiptsOf(Seed) # {}

C1_Witness ==
    /\ pc = "update_wait"
    /\ inflight = {"update"}
    /\ Fns = << Deploy, Seed, Update >>

\* C2: in the scenario of the script, whenever the update call has been
\* attempted the seeding transaction has been mined with status success;
\* the update is never attempted after a seeding call that raised or
\* reverted.
C2_SeedSucceededBeforeUpdate ==
    /\ Issued(Update) =>
          /\ ReceiptsOf(Seed) # {}
          /\ \A i \in ReceiptsOf(Seed) : receipts[i].status = Confirmed
    /\ (\E i \in ReceiptsOf(Seed) : receipts[i].status = Reverted) => ~Issued(Update)

C2_Witness ==
    /\ pc = "update_wait"
    /\ zeros = NumZeros
    /\ tree_depth = TreeDepth
    /\ \E i \in ReceiptsOf(Seed) : receipts[i].status = Confirmed

\* C3: when the call trace is asked for, the summary of the update
\* transaction has been printed and its status read; a failed trace request
\* leaves that output as it was.
C3_InfoBeforeTrace ==
    /\ Issued("call_trace") =>
          /\ Len(output) >= 1
          /\ output[1] = "info"
          /\ status_read = tx.status
          /\ IndexOf("info") < IndexOf("call_trace")
    /\ (Issued("call_trace") /\ pc = "aborted") => output = << "info" >>

C3_Witness ==
    /\ Issued("call_trace")
    /\ pc = "aborted"
    /\ error = "RPCRequestError"
    /\ output = << "info" >>

\* What main has to have behind it to issue the call named fn.
Behind(fn) ==
    CASE fn = Deploy -> TRUE
      [] fn = Seed -> ReceiptsOf(Deploy) # {}
      [] fn = Update -> ReceiptsOf(Seed) # {}
      [] fn = "info" -> tx # NoTx
      [] fn = "call_trace" -> tx # NoTx /\ output # << >>

C4_State ==
    /\ \A fn \in {Deploy, Seed, Update, "info", "call_trace"} :
          /\ Count(fn) <= 1
          /\ Issued(fn) => Behind(fn)
    /\ error # "none" <=> pc = "aborted"
    /\ (\E i \in 1..Len(receipts) : receipts[i].status = Reverted) => pc = "aborted"
    /\ (pc = "aborted" /\ mock_contract = 0) => ~Issued(Seed) /\ ~Issued(Update)

\* C4: a failed external step ends the run there: nothing is issued after
\* it, a failed deployment is followed by neither seed nor update, and no
\* step is issued twice.
C4_AbortNoRetry ==
    /\ []C4_State
    /\ [][pc = "aborted" => pc' = "aborted" /\ calls' = calls /\ output' = output]_vars

C4_Witness ==
    /\ pc = "aborted"
    /\ error = "DeployError"
    /\ Fns = << Deploy >>

C7_StatusNotBranchedOn ==
    /\ [](tx # NoTx =>
            /\ IsPrefix(Fns, << Deploy, Seed, Update, "info", "call_trace" >>)
            /\ status_read \in {-1, tx.status}
            /\ pc = "done" => Issued("call_trace") /\ output = << "info", "call_trace" >>
            /\ pc = "aborted" => error = "RPCRequestError")
    /\ [][(pc = "status" /\ pc' # pc) => pc' = "call_trace"]_vars
    /\ [][(pc = "call_trace" /\ pc' # pc) => pc' = "trace_wait" /\ Issued("call_trace")']_vars

C7_Witness ==
    /\ tx.status = Reverted
    /\ status_read = Reverted
    /\ Issued("call_trace")
    /\ pc = "done"

\* C8: with every call returning or failing, main terminates; a run in
\* which nothing fails ends after one deploy, one seed, one update, one
\* summary and one trace, in that order.
C8_RunToCompletion ==
    /\ <>Terminated
    /\ [](pc = "done" =>
            /\ Fns = << Deploy, Seed, Update, "info", "call_trace" >>
            /\ output = << "info", "call_trace" >>
            /\ inflight = {}
            /\ error = "none")

C8_Witness ==
    /\ pc = "done"
    /\ Len(calls) = 5
    /\ Len(receipts) = 3

\* C9: nothing is sent to the contract between seed and update, and nobody
\* else touches it: when the update is submitted the contract holds the
\* seeded root and leaf count 1, not the state of a fresh deployment.
C9_UpdateOnSeededState ==
    /\ Issued(Update) => IndexOf(Update) = IndexOf(Seed) + 1
    /\ pc \in {"update", "update_wait"} =>
          /\ chain[mock_contract].deployed
          /\ chain[mock_contract].root = Root(initial_root_value, << >>)
          /\ chain[mock_contract].numLeaves = 1

C9_Witness ==
    /\ pc = "update_wait"
    /\ chain[mock_contract].root.base = initial_root_value
    /\ chain[mock_contract].numLeaves = initial_num_of_leaves

\* C10: deploy, seed and update are all sent from accounts[0], and seed and
\* update go to the handle the deployment of this run returned; no other
\* identity and no other contract is involved.
C10_OneIdentityOneHandle ==
    /\ \A i \in 1..Len(calls) :
          calls[i].fn \in {Deploy, Seed, Update} =>
             /\ Len(accounts) >= 1
             /\ calls[i].from = accounts[1]
             /\ calls[i].from = 0
    /\ \A i \in 1..Len(calls) :
          calls[i].fn \in {Seed, Update} =>
             /\ calls[i].to = mock_contract
             /\ chain[calls[i].to].deployed
    /\ \A a \in Addresses : chain[a].deployed => a = mock_contract

C10_Witness ==
    /\ pc = "update_wait"
    /\ Len(accounts) >= 2
    /\ CallOf(Seed).to = CallOf(Update).to

=============================================================================
